---------------------------- MODULE Spec2Model ----------------------------
(***************************************************************************)
(* Request handling of the core-tessie-api gateway.                        *)
(*                                                                         *)
(* Two routers are modelled, one request at a time:                        *)
(*   - the multi-API router  (src/src_python/main.py, fetch), with the     *)
(*     upstream clients of src/src_python/tessie_client.py and the health  *)
(*     checker of src/src_python/utils/health.py;                          *)
(*   - the gated single-API router (src/src/main.py, fetch), with the      *)
(*     request helper of src/tessie_api/tessie_wrapper.py.                 *)
(*                                                                         *)
(* A handler is cut into steps at the points where it awaits I/O (the      *)
(* request body, the upstream HTTP call).  Headers, body, query string and *)
(* environment bindings are drawn where the code reads them and kept in    *)
(* req / env.                                                              *)
(*                                                                         *)
(* Strings the code inspects (paths, Authorization headers, percent        *)
(* values) are sequences of tokens; "/" and " " are tokens of their own,   *)
(* so startswith / endswith / in / split / strip are computed on the       *)
(* sequence as Python computes them on the characters.                     *)
(***************************************************************************)
EXTENDS Integers, Sequences, FiniteSets, TLC

\* ------------------------------------------------------------------ bounds
\* number of distinct vehicle identifiers that occur in requests
NumVins == 1
\* number of distinct JSON documents the upstream can answer with
NumJson == 1

NONE == "NONE"

AllVins == <<"5YJ1", "5YJ2", "5YJ3">>
Vins == {AllVins[i] : i \in 1..NumVins}
AllJson == <<"json1", "json2", "json3">>
JsonDocs == {AllJson[i] : i \in 1..NumJson}

\* an upstream JSON document that is an array, not an object
JsonArray == "jsonarray"

\* ---------------------------------------------------- Python str operations
\* s.startswith(p)
StartsWith(s, p) == Len(s) >= Len(p) /\ SubSeq(s, 1, Len(p)) = p

\* s.endswith(p)
EndsWith(s, p) ==
    Len(s) >= Len(p) /\ SubSeq(s, Len(s) - Len(p) + 1, Len(s)) = p

\* index of the first occurrence of p in s, 0 when there is none  (s.find(p)+1)
Find(s, p) ==
    LET hits == {i \in 1..(Len(s) - Len(p) + 1) : SubSeq(s, i, i + Len(p) - 1) = p}
    IN  IF hits = {} THEN 0 ELSE CHOOSE i \in hits : \A j \in hits : i <= j

\* p in s
Contains(s, p) == Find(s, p) # 0

\* s.lstrip(ch)
RECURSIVE LStrip(_, _)
LStrip(s, ch) ==
    IF s # <<>> /\ Head(s) = ch THEN LStrip(Tail(s), ch) ELSE s

\* s.rstrip(ch)
RECURSIVE RStrip(_, _)
RStrip(s, ch) ==
    IF s # <<>> /\ s[Len(s)] = ch THEN RStrip(SubSeq(s, 1, Len(s) - 1), ch) ELSE s

\* s.strip() for the blank token
Strip(s) == RStrip(LStrip(s, " "), " ")

\* s.split(sep): the pieces between the occurrences of sep, always at least one
RECURSIVE Split(_, _)
Split(s, sep) ==
    LET i == Find(s, sep)
    IN  IF i = 0 THEN <<s>>
        ELSE <<SubSeq(s, 1, i - 1)>> \o Split(SubSeq(s, i + Len(sep), Len(s)), sep)

\* s.split(sep, 1)
Split1(s, sep) ==
    LET i == Find(s, sep)
    IN  IF i = 0 THEN <<s>>
        ELSE <<SubSeq(s, 1, i - 1), SubSeq(s, i + Len(sep), Len(s))>>

\* ------------------------------------------------------------ JSON values
\* A JSON / query value: t is its type, n its number, s its characters (t =
\* "str") or its items (t = "list").
Val(t, n, s) == [t |-> t, n |-> n, s |-> s]
Absent == Val("absent", 0, <<>>)
JNull == Val("null", 0, <<>>)
JInt(n) == Val("int", n, <<>>)
JStr(s) == Val("str", 0, s)
JList(l) == Val("list", 0, l)

\* Python: value is None (a missing key and a JSON null both read as None)
IsNone(v) == v.t \in {"absent", "null"}

DigitChars == <<"0", "1", "2", "3", "4", "5", "6", "7", "8", "9">>
IsDigit(c) == \E i \in 1..10 : DigitChars[i] = c
DigitOf(c) == (CHOOSE i \in 1..10 : DigitChars[i] = c) - 1

RECURSIVE DecimalValue(_)
DecimalValue(cs) ==
    IF cs = <<>> THEN 0
    ELSE 10 * DecimalValue(SubSeq(cs, 1, Len(cs) - 1)) + DigitOf(cs[Len(cs)])

\* Python int(v): [ok, n]; ok = FALSE stands for TypeError / ValueError
IntCoerce(v) ==
    IF v.t = "int" THEN [ok |-> TRUE, n |-> v.n]
    ELSE IF v.t = "str" /\ Strip(v.s) # <<>>
            /\ \A i \in 1..Len(Strip(v.s)) : IsDigit(Strip(v.s)[i])
         THEN [ok |-> TRUE, n |-> DecimalValue(Strip(v.s))]
    ELSE [ok |-> FALSE, n |-> 0]

\* str.lower() on the query values that occur
Lower(c) ==
    IF c \in {"TRUE", "True", "true"} THEN "true"
    ELSE IF c \in {"FALSE", "False", "false"} THEN "false"
    ELSE c

\* ----------------------------------------------------------------- inputs
Methods == {"GET", "POST", "PUT", "PATCH", "DELETE"}

\* Content-Type header values; <<>> is the missing header (.get(..., ""))
JsonCType == <<"application/json">>
ContentTypes == {<<>>, JsonCType, JsonCType \o <<"; charset=utf-8">>, <<"text/plain">>}

\* what `await request.json()` can produce: a failure, a list, an object
Body(kind, vin, percent) == [kind |-> kind, vin |-> vin, percent |-> percent]
PercentVals ==
    {Absent, JNull, JInt(80), JInt(0), JStr(<<"8", "0">>), JStr(<<"a", "b", "c">>),
     JStr(<<>>), JList(<<"80">>)}
BodyVinVals == {Absent, JInt(7), JStr(<<>>)} \cup {JStr(<<v>>) : v \in Vins}
MultiBodies ==
    {Body("invalid", Absent, Absent), Body("list", Absent, Absent)}
    \cup {Body("object", Absent, p) : p \in PercentVals}
    \cup {Body("object", JStr(<<v>>), Absent) : v \in Vins}
BodyNone == Body("none", Absent, Absent)
BodyEmpty == Body("object", Absent, Absent)

\* Python truthiness of a parsed body (None and {} are false)
BodyTruthy(b) ==
    \/ b.kind = "list"
    \/ b.kind = "object" /\ (b.vin.t # "absent" \/ b.percent.t # "absent")

\* query string as parse_qs returns it: key -> list of values, <<>> = no key
Query(oa, en, ep, vin) ==
    [only_active |-> oa, enabled |-> en, endpoints |-> ep, vin |-> vin]
NoQuery == Query(<<>>, <<>>, <<>>, <<>>)
OnlyActiveQs == {<<"true">>, <<"false">>, <<"TRUE">>, <<"true", "false">>}
EnabledQs == {<<"true">>, <<"false">>, <<"maybe">>, <<"true", "true">>}
EndpointsQs == {<<"charge_state">>, <<"charge_state", "drive_state">>}

\* ---------------------------------------------------------------- paths
Sl == <<"/">>
PrefixOf(family) ==
    CASE family = "tessie" -> <<"/", "api", "/", "tessie">>
      [] family = "telemetry" -> <<"/", "api", "/", "telemetry">>
      [] family = "fleet" -> <<"/", "api", "/", "fleet">>
Families == {"tessie", "telemetry", "fleet"}

TessieCommands ==
    {"start_charging", "stop_charging", "set_charge_limit", "lock", "unlock",
     "flash_lights", "honk", "start_climate", "stop_climate"}

\* descriptors requested under /api/tessie/
TessieSuffixes ==
    {<<>>, <<"vehicles">>, <<"vehicles", "/">>, <<"state">>, <<"bogus">>,
     <<"/", "vehicles">>, <<"vehicles", "/", "state">>}
    \cup {<<v>> : v \in Vins}
    \cup {<<v, "/", w>> : v \in Vins,
                          w \in {"state", "battery", "wake", "bogus", "command"}}
    \cup {<<v, "/", "state", "/">> : v \in Vins}
    \cup {<<"/", v, "/", "state">> : v \in Vins}
    \cup {<<v, "/", "command", "/", c>> : v \in Vins, c \in TessieCommands \cup {"bogus"}}
    \cup {<<v, "/", "command", "/", "lock", "down">> : v \in Vins}
    \cup {<<v, "/", "command", "/", "lock", "/", "state">> : v \in Vins}
    \cup {<<v, "/", "command", "/", "lock", "/", "command", "/", "unlock">> : v \in Vins}

\* descriptors requested under /api/telemetry/
TelemetrySuffixes ==
    {<<"ping">>, <<"test">>, <<"metadata">>, <<"scopes">>, <<"ping", "/">>,
     <<"bogus">>, <<"polling">>, <<"refresh">>,
     <<"vehicles", "/", "/", "polling">>, <<"ping", "/", "polling">>}
    \cup {<<"vehicles", "/", v, "/", w>> : v \in Vins, w \in {"polling", "refresh", "bogus"}}
    \cup {<<v, "/", "polling">> : v \in Vins}
    \cup {<<"vehicles", "/", v, "/", "polling", "/", "refresh">> : v \in Vins}

\* descriptors requested under /api/fleet/
FleetSuffixes ==
    {<<"vehicles">>, <<"vehicles", "/">>, <<"bogus">>, <<"command", "/", "honk_horn">>}
    \cup {<<v, "/", w>> : v \in Vins, w \in {"vehicle_data", "wake_up", "bogus"}}
    \cup {<<v, "/", "command", "/", c>> : v \in Vins, c \in {"charge_start", "wake_up"}}
    \cup {<<v, "/", "command", "/">> : v \in Vins}
    \cup {<<v, "/", "command", "/", "a", "/", "command", "/", "b">> : v \in Vins}

SuffixesOf(family) ==
    CASE family = "tessie" -> TessieSuffixes
      [] family = "telemetry" -> TelemetrySuffixes
      [] family = "fleet" -> FleetSuffixes

\* query strings sent with a path of the family: the key its table reads
QueriesOf(family) ==
    CASE family = "tessie" -> {Query(q, <<>>, <<>>, <<>>) : q \in OnlyActiveQs \cup {<<>>}}
      [] family = "telemetry" -> {Query(<<>>, q, <<>>, <<>>) : q \in EnabledQs \cup {<<>>}}
      [] family = "fleet" -> {Query(<<>>, <<>>, q, <<>>) : q \in EndpointsQs \cup {<<>>}}

OtherPaths ==
    {<<"/", "health">>, <<"/", "status">>, <<"/">>, <<"/", "index.html">>,
     <<"/", "api", "/", "tessie">>, <<"/", "api", "/", "tessiex", "/", "vehicles">>}

Url(path, query) == [path |-> path, query |-> query]
MultiUrls ==
    {Url(p, NoQuery) : p \in OtherPaths}
    \cup UNION {{Url(PrefixOf(f) \o Sl \o s, q) : s \in SuffixesOf(f), q \in QueriesOf(f)}
                : f \in Families}

\* environment bindings of the multi-API worker (None, "" or a key)
Keys(t, m, f) == [tessie |-> t, telemetry |-> m, fleet |-> f]
MultiEnvs ==
    {Keys(t, m, f) : t \in {NONE, "keyT"}, m \in {NONE, "keyM"}, f \in {NONE, "keyF"}}
    \cup {Keys("", "", "")}

\* Python truthiness of an optional string
Truthy(x) == x # NONE /\ x # ""

\* --------------------------------------------- upstream (external service)
\* What the remote API does with one HTTP call: a 2xx with a JSON document, a
\* 2xx whose body is not JSON, a non-2xx with a body text, or no answer.
Outcome(kind, status, text, json) ==
    [kind |-> kind, status |-> status, text |-> text, json |-> json]
Outcomes ==
    {Outcome("ok", 200, "", j) : j \in JsonDocs \cup {JsonArray}}
    \cup {Outcome("badjson", 200, "<html>", NONE)}
    \cup {Outcome("http", 401, "Unauthorized", NONE), Outcome("http", 404, "no such vehicle", NONE),
          Outcome("http", 503, "", NONE), Outcome("http", 302, "moved", NONE)}
    \cup {Outcome("transport", 0, "timed out", NONE)}

\* the outcomes drawn for the calls of the health probes and of check_auth:
\* one of each class the checker tells apart
ProbeOutcomes ==
    {o \in Outcomes : \/ o.kind \in {"ok", "transport"}
                      \/ o.kind = "http" /\ o.status \in {401, 503}}
AuthOutcomes ==
    {o \in Outcomes : \/ o.kind = "transport"
                      \/ o.kind = "ok" /\ o.json # JsonArray
                      \/ o.kind = "http" /\ o.status = 401}

\* ------------------------------------ src_python/main.py: request parsing
\* _parse_query_params: a key with one value maps to the value, else to the list
ParamOf(l) ==
    IF l = <<>> THEN Absent
    ELSE IF Len(l) = 1 THEN JStr(<<l[1]>>) ELSE JList(l)

parse_query_params(query) ==
    [only_active |-> ParamOf(query.only_active), enabled |-> ParamOf(query.enabled),
     endpoints |-> ParamOf(query.endpoints), vin |-> ParamOf(query.vin)]

\* _parse_json_body: [raised, body]; a non-JSON content type reads as {}
parse_json_body(ctype, body) ==
    IF StartsWith(ctype, JsonCType)
    THEN IF body.kind = "invalid"
         THEN [raised |-> TRUE, body |-> BodyNone]
         ELSE [raised |-> FALSE, body |-> body]
    ELSE [raised |-> FALSE, body |-> BodyEmpty]

\* _extract_path_suffix
extract_path_suffix(full_path, prefix) ==
    IF StartsWith(full_path, prefix)
    THEN LStrip(SubSeq(full_path, Len(prefix) + 1, Len(full_path)), "/")
    ELSE <<>>

\* ------------------------------------------- outcome of matching a request
\* kind "call": one client method is invoked (op, upstream method, relative
\* path, query parameters, JSON body); "http_exc": HTTPException(status, msg);
\* "exc": any other exception; "notfound": the else branch of the table.
NoJson == [kind |-> "none", percent |-> 0, body |-> BodyNone]
PercentJson(n) == [kind |-> "percent", percent |-> n, body |-> BodyNone]
BodyJson(b) ==
    IF b.kind = "none" THEN NoJson ELSE [kind |-> "body", percent |-> 0, body |-> b]

Plan(kind, op, vin, um, ue, up, uj, status, msg) ==
    [kind |-> kind, op |-> op, vin |-> vin, umethod |-> um, uendpoint |-> ue,
     uparams |-> up, ujson |-> uj, status |-> status, msg |-> msg]
CallPlan(op, vin, um, ue, up, uj) == Plan("call", op, vin, um, ue, up, uj, 0, <<>>)
RaiseHTTP(status, msg) == Plan("http_exc", NONE, <<>>, NONE, <<>>, <<>>, NoJson, status, msg)
RaiseOther(msg) == Plan("exc", NONE, <<>>, NONE, <<>>, <<>>, NoJson, 0, msg)
NotFoundPlan(msg) == Plan("notfound", NONE, <<>>, NONE, <<>>, <<>>, NoJson, 404, msg)

\* ------------------------------- src_python/tessie_client.py: TessieClient
Tessie_list_vehicles(only_active) ==
    CallPlan("list_vehicles", <<>>, "GET", <<"vehicles">>,
             <<"only_active", IF only_active THEN "true" ELSE "false">>, NoJson)
Tessie_state(vin) == CallPlan("state", vin, "GET", vin \o <<"/", "state">>, <<>>, NoJson)
Tessie_battery(vin) == CallPlan("battery", vin, "GET", vin \o <<"/", "battery">>, <<>>, NoJson)
Tessie_wake(vin) == CallPlan("wake", vin, "POST", vin \o <<"/", "wake">>, <<>>, NoJson)
\* start_charging, stop_charging, lock, unlock, flash_lights, honk,
\* start_climate, stop_climate: POST {vin}/command/{name}
Tessie_command(name, vin) ==
    CallPlan(name, vin, "POST", vin \o <<"/", "command", "/", name>>, <<>>, NoJson)
\* variant: the percent is sent as a query parameter, without a JSON body
Tessie_set_charge_limitAsParam(vin, percent) ==
    CallPlan("set_charge_limit", vin, "POST",
             vin \o <<"/", "command", "/", "set_charge_limit">>,
             <<"percent", ToString(percent)>>, NoJson)

Tessie_set_charge_limit(vin, percent) ==
    CallPlan("set_charge_limit", vin, "POST",
             vin \o <<"/", "command", "/", "set_charge_limit">>, <<>>, PercentJson(percent))

\* --------------------------- src_python/tessie_client.py: TeslemetryClient
\* ping, test, metadata, scopes: GET {name}
Telemetry_get(name) == CallPlan(name, <<>>, "GET", <<name>>, <<>>, NoJson)
\* enabled is "none", "true" or "false"
server_side_polling(vin, enabled) ==
    CallPlan("server_side_polling", vin,
             IF enabled = "none" THEN "GET" ELSE IF enabled = "true" THEN "POST" ELSE "DELETE",
             <<"vehicles", "/">> \o vin \o <<"/", "polling">>, <<>>, NoJson)
vehicle_data_refresh(vin) ==
    CallPlan("vehicle_data_refresh", vin, "POST",
             <<"vehicles", "/">> \o vin \o <<"/", "refresh">>, <<>>, NoJson)

\* ----------------------------- src_python/tessie_client.py: FleetAPIClient
FleetBase == <<"api", "/", "1", "/", "vehicles">>
Fleet_list_vehicles == CallPlan("list_vehicles", <<>>, "GET", FleetBase, <<>>, NoJson)
\* endpoints is the parsed query value; a falsy one sends no parameters
vehicle_data(vin, endpoints) ==
    CallPlan("vehicle_data", vin, "GET", FleetBase \o Sl \o vin \o <<"/", "vehicle_data">>,
             IF IsNone(endpoints) THEN <<>> ELSE <<"endpoints">> \o endpoints.s, NoJson)
wake_up(vin) ==
    CallPlan("wake_up", vin, "POST", FleetBase \o Sl \o vin \o <<"/", "wake_up">>, <<>>, NoJson)
Fleet_command(vin, command, params) ==
    CallPlan("command", vin, "POST",
             FleetBase \o Sl \o vin \o <<"/", "command", "/">> \o command, <<>>, BodyJson(params))

\* ------------------------- src_python/main.py: the three operation tables
\* variant: the last path segment is taken for the VIN
LastSegment(endpoint) == Split(endpoint, Sl)[Len(Split(endpoint, Sl))]
FirstSegment(endpoint) == Split(endpoint, Sl)[1]
CommandSub(name) == <<"/", "command", "/", name>>

\* set_charge_limit branch (main.py 171-176)
MultiSetChargeLimit(endpoint, json_body) ==
    LET percent == IF BodyTruthy(json_body) THEN json_body.percent ELSE Absent
    IN  IF json_body.kind = "list" THEN RaiseOther(<<"'list' object has no attribute 'get'">>)
        ELSE IF IsNone(percent) THEN RaiseHTTP(400, <<"Missing 'percent' parameter">>)
        ELSE IF ~IntCoerce(percent).ok THEN RaiseOther(<<"int() cannot convert 'percent'">>)
        ELSE Tessie_set_charge_limit(FirstSegment(endpoint), IntCoerce(percent).n)

\* vehicles branch (main.py 147-149)
MultiListVehicles(params) ==
    LET oa == params.only_active
    IN  IF oa.t = "list" THEN RaiseOther(<<"'list' object has no attribute 'lower'">>)
        ELSE Tessie_list_vehicles(IF oa.t = "absent" THEN TRUE ELSE Lower(oa.s[1]) = "true")

TessiePostCommands ==
    <<"start_charging", "stop_charging", "set_charge_limit", "lock", "unlock",
      "flash_lights", "honk", "start_climate", "stop_climate">>

\* the first POST command of the table, from position i on, that occurs in
\* the descriptor (0: none)
RECURSIVE FirstCommand(_, _)
FirstCommand(endpoint, i) ==
    IF i > Len(TessiePostCommands) THEN 0
    ELSE IF Contains(endpoint, CommandSub(TessiePostCommands[i])) THEN i
    ELSE FirstCommand(endpoint, i + 1)

\* variant: the message does not name the descriptor
TessieNotFoundBare(endpoint) == NotFoundPlan(<<"Not Found">>)
TessieNotFound(endpoint) == NotFoundPlan(<<"Tessie endpoint not found: ">> \o endpoint)

TessieRoute(method, endpoint, params, json_body) ==
    IF endpoint = <<"vehicles">> THEN MultiListVehicles(params)
    ELSE IF EndsWith(endpoint, <<"/", "state">>) THEN Tessie_state(FirstSegment(endpoint))
    ELSE IF EndsWith(endpoint, <<"/", "battery">>) THEN Tessie_battery(FirstSegment(endpoint))
    ELSE IF EndsWith(endpoint, <<"/", "wake">>) /\ method = "POST"
         THEN Tessie_wake(FirstSegment(endpoint))
    ELSE IF method = "POST" /\ FirstCommand(endpoint, 1) # 0
         THEN LET name == TessiePostCommands[FirstCommand(endpoint, 1)]
              IN  IF name = "set_charge_limit" THEN MultiSetChargeLimit(endpoint, json_body)
                  ELSE Tessie_command(name, FirstSegment(endpoint))
    ELSE TessieNotFound(endpoint)

TelemetryNotFound(endpoint) == NotFoundPlan(<<"Teslemetry endpoint not found: ">> \o endpoint)

\* polling branch (main.py 236-247)
MultiPolling(method, endpoint, params) ==
    LET vin == Split(endpoint, Sl)[2]
        enabled_param == params.enabled
        is(c) == enabled_param.t = "str" /\ enabled_param.s = <<c>>
    IN  IF enabled_param.t = "absent" /\ method = "GET" THEN server_side_polling(vin, "none")
        ELSE IF is("true") \/ method = "POST" THEN server_side_polling(vin, "true")
        ELSE IF is("false") \/ method = "DELETE" THEN server_side_polling(vin, "false")
        ELSE RaiseHTTP(400, <<"Invalid polling operation">>)

TelemetryRoute(method, endpoint, params) ==
    IF endpoint \in {<<"ping">>, <<"test">>, <<"metadata">>, <<"scopes">>}
    THEN Telemetry_get(endpoint[1])
    ELSE IF Contains(endpoint, <<"/", "polling">>) THEN MultiPolling(method, endpoint, params)
    ELSE IF Contains(endpoint, <<"/", "refresh">>) /\ method = "POST"
         THEN vehicle_data_refresh(Split(endpoint, Sl)[2])
    ELSE TelemetryNotFound(endpoint)

FleetNotFound(endpoint) == NotFoundPlan(<<"Fleet endpoint not found: ">> \o endpoint)

FleetRoute(method, endpoint, params, json_body) ==
    IF endpoint = <<"vehicles">> THEN Fleet_list_vehicles
    ELSE IF Contains(endpoint, <<"/", "vehicle_data">>)
         THEN vehicle_data(FirstSegment(endpoint), params.endpoints)
    ELSE IF Contains(endpoint, <<"/", "wake_up">>) /\ method = "POST"
         THEN wake_up(FirstSegment(endpoint))
    ELSE IF Contains(endpoint, <<"/", "command", "/">>) /\ method = "POST"
         THEN LET parts == Split(endpoint, <<"/", "command", "/">>)
              IN  Fleet_command(parts[1], parts[2], json_body)
    ELSE FleetNotFound(endpoint)

\* the handler predicates of the three tables, in declared order, each
\* evaluated on its own (lines 147-198, 224-249, 276-288)
TessiePredicates(method, endpoint) ==
    <<endpoint = <<"vehicles">>,
      EndsWith(endpoint, <<"/", "state">>),
      EndsWith(endpoint, <<"/", "battery">>),
      EndsWith(endpoint, <<"/", "wake">>) /\ method = "POST">>
    \o [i \in 1..Len(TessiePostCommands) |->
           Contains(endpoint, CommandSub(TessiePostCommands[i])) /\ method = "POST"]

TelemetryPredicates(method, endpoint) ==
    <<endpoint = <<"ping">>, endpoint = <<"test">>, endpoint = <<"metadata">>,
      endpoint = <<"scopes">>,
      Contains(endpoint, <<"/", "polling">>),
      Contains(endpoint, <<"/", "refresh">>) /\ method = "POST">>

FleetPredicates(method, endpoint) ==
    <<endpoint = <<"vehicles">>,
      Contains(endpoint, <<"/", "vehicle_data">>),
      Contains(endpoint, <<"/", "wake_up">>) /\ method = "POST",
      Contains(endpoint, <<"/", "command", "/">>) /\ method = "POST">>

PredicatesOf(family, method, endpoint) ==
    CASE family = "tessie" -> TessiePredicates(method, endpoint)
      [] family = "telemetry" -> TelemetryPredicates(method, endpoint)
      [] family = "fleet" -> FleetPredicates(method, endpoint)

\* positions of the predicates that hold
Satisfied(preds) == {i \in 1..Len(preds) : preds[i]}

MultiRoute(family, method, endpoint, params, json_body) ==
    CASE family = "tessie" -> TessieRoute(method, endpoint, params, json_body)
      [] family = "telemetry" -> TelemetryRoute(method, endpoint, params)
      [] family = "fleet" -> FleetRoute(method, endpoint, params, json_body)

\* -------------------- src_python/tessie_client.py: BaseAPIClient._request
BaseUrl(api) ==
    CASE api = "tessie" -> <<"https://api.tessie.com">>
      [] api = "telemetry" -> <<"https://api.teslemetry.com">>
      [] api = "fleet" -> <<"https://fleet-api.prd.na.vn.cloud.tesla.com">>

\* the HTTP call _request hands to the shared pool (lines 97-113)
HttpCall(api, token, plan) ==
    [api |-> api, method |-> plan.umethod, endpoint |-> plan.uendpoint,
     url |-> BaseUrl(api) \o Sl \o LStrip(plan.uendpoint, "/"),
     auth |-> <<"Bearer", " ", token>>, params |-> plan.uparams, json |-> plan.ujson]

LogEvent(api, endpoint, status, error) ==
    [api |-> api, endpoint |-> endpoint, status |-> status, error |-> error]

HttpErrorMsg(o) == <<"HTTP ", ToString(o.status), ": ", o.text>>
RequestFailedMsg(detail) == <<"Request failed: ", detail>>

\* httpx raise_for_status: every non-2xx status raises HTTPStatusError
IsSuccess(status) == status >= 200 /\ status <= 299

\* TessieAPIError(message, status_code); known = FALSE is status_code None
ApiError(message, known, code) == [message |-> message, known |-> known, code |-> code]
NoApiError == ApiError(<<>>, FALSE, 0)

\* variant: a transport failure is reported with status 503
RequestResultTransport503(api, plan, o) ==
    IF o.kind = "transport"
    THEN [ok |-> FALSE, json |-> NONE,
          err |-> ApiError(RequestFailedMsg(o.text), TRUE, 503),
          logs |-> <<LogEvent(api, plan.uendpoint, 0, RequestFailedMsg(o.text))>>]
    ELSE IF ~IsSuccess(o.status)
    THEN [ok |-> FALSE, json |-> NONE,
          err |-> ApiError(HttpErrorMsg(o), TRUE, o.status),
          logs |-> <<LogEvent(api, plan.uendpoint, o.status, <<>>),
                     LogEvent(api, plan.uendpoint, o.status, HttpErrorMsg(o))>>]
    ELSE IF o.kind = "badjson"
    THEN [ok |-> FALSE, json |-> NONE,
          err |-> ApiError(RequestFailedMsg("Expecting value"), FALSE, 0),
          logs |-> <<LogEvent(api, plan.uendpoint, o.status, <<>>),
                     LogEvent(api, plan.uendpoint, 0, RequestFailedMsg("Expecting value"))>>]
    ELSE [ok |-> TRUE, json |-> o.json, err |-> NoApiError,
          logs |-> <<LogEvent(api, plan.uendpoint, o.status, <<>>)>>]

\* result of _request for an upstream outcome: the value returned or the
\* TessieAPIError raised, and the log events emitted on the way
RequestResult(api, plan, o) ==
    IF o.kind = "transport"
    THEN [ok |-> FALSE, json |-> NONE,
          err |-> ApiError(RequestFailedMsg(o.text), FALSE, 0),
          logs |-> <<LogEvent(api, plan.uendpoint, 0, RequestFailedMsg(o.text))>>]
    ELSE IF ~IsSuccess(o.status)
    THEN [ok |-> FALSE, json |-> NONE,
          err |-> ApiError(HttpErrorMsg(o), TRUE, o.status),
          logs |-> <<LogEvent(api, plan.uendpoint, o.status, <<>>),
                     LogEvent(api, plan.uendpoint, o.status, HttpErrorMsg(o))>>]
    ELSE IF o.kind = "badjson"
    THEN [ok |-> FALSE, json |-> NONE,
          err |-> ApiError(RequestFailedMsg("Expecting value"), FALSE, 0),
          logs |-> <<LogEvent(api, plan.uendpoint, o.status, <<>>),
                     LogEvent(api, plan.uendpoint, 0, RequestFailedMsg("Expecting value"))>>]
    ELSE [ok |-> TRUE, json |-> o.json, err |-> NoApiError,
          logs |-> <<LogEvent(api, plan.uendpoint, o.status, <<>>)>>]

\* ------------------------- src_python/tessie_client.py: UnifiedTessieClient
\* variant: a key is taken as configured whenever it is not None
UnifiedTessieClientNotNone(keys) ==
    [pool |-> "open", closes |-> 0,
     tessie |-> keys.tessie, telemetry |-> keys.telemetry, fleet |-> keys.fleet]

\* a sub-client is its access token, NONE when the family has no client
UnifiedTessieClient(keys) ==
    [pool |-> "open", closes |-> 0,
     tessie |-> IF Truthy(keys.tessie) THEN keys.tessie ELSE NONE,
     telemetry |-> IF Truthy(keys.telemetry) THEN keys.telemetry ELSE NONE,
     fleet |-> IF Truthy(keys.fleet) THEN keys.fleet ELSE NONE]
NoClient == [pool |-> "none", closes |-> 0, tessie |-> NONE, telemetry |-> NONE, fleet |-> NONE]

\* variant: close() is counted but the pool is left open
CloseLeavesPoolOpen(c) == [c EXCEPT !.closes = @ + 1]

\* UnifiedTessieClient.close
Close(c) == [c EXCEPT !.pool = "closed", !.closes = @ + 1]

\* ------------------------------------------------------------- responses
Resp(status, kind, error, json) ==
    [status |-> status, kind |-> kind, error |-> error, json |-> json]
NoResp == Resp(0, "none", <<>>, NONE)
\* _json_response / _error_response
json_response(json) == Resp(200, "json", <<>>, json)
error_response(status, message) == Resp(status, "error", message, NONE)

\* --------------------------------- src_python/utils/health.py: HealthChecker
FamilyOrder == <<"tessie", "telemetry", "fleet">>

\* the call a family's probe makes (check_tessie, check_telemetry, check_fleet)
ProbePlan(family) ==
    CASE family = "tessie" -> Tessie_list_vehicles(TRUE)
      [] family = "telemetry" -> Telemetry_get("ping")
      [] family = "fleet" -> Fleet_list_vehicles

\* the probe reads a key of the document (result.get) except for telemetry
ProbeReadsObject(family) == family \in {"tessie", "fleet"}

\* variant: every error with a known status is DEGRADED
ProbeStatusKnownDegraded(family, r) ==
    IF r.ok
    THEN IF ProbeReadsObject(family) /\ r.json = JsonArray THEN "UNHEALTHY" ELSE "HEALTHY"
    ELSE IF r.err.known /\ r.err.code # 0 THEN "DEGRADED"
    ELSE "UNHEALTHY"

\* status a probe reports for the result of its call
ProbeStatus(family, r) ==
    IF r.ok
    THEN IF ProbeReadsObject(family) /\ r.json = JsonArray THEN "UNHEALTHY" ELSE "HEALTHY"
    ELSE IF r.err.known /\ r.err.code # 0 /\ r.err.code < 500 THEN "DEGRADED"
    ELSE "UNHEALTHY"

\* variant: UNKNOWN is not filtered out of the all-healthy test
OverallStatusUnfiltered(statuses) ==
    LET known == {i \in 1..Len(statuses) : statuses[i] # "UNKNOWN"}
    IN  IF \A i \in 1..Len(statuses) : statuses[i] = "HEALTHY" THEN "HEALTHY"
        ELSE IF \E i \in known : statuses[i] = "UNHEALTHY" THEN "UNHEALTHY"
        ELSE IF \E i \in known : statuses[i] = "DEGRADED" THEN "DEGRADED"
        ELSE "UNKNOWN"

\* check_all, lines 243-252
OverallStatus(statuses) ==
    LET known == {i \in 1..Len(statuses) : statuses[i] # "UNKNOWN"}
    IN  IF \A i \in known : statuses[i] = "HEALTHY" THEN "HEALTHY"
        ELSE IF \E i \in known : statuses[i] = "UNHEALTHY" THEN "UNHEALTHY"
        ELSE IF \E i \in known : statuses[i] = "DEGRADED" THEN "DEGRADED"
        ELSE "UNKNOWN"

\* the call check_auth makes for a family
AuthPlan(family) ==
    CASE family = "tessie" -> Tessie_list_vehicles(TRUE)
      [] family = "telemetry" -> Telemetry_get("test")
      [] family = "fleet" -> Fleet_list_vehicles

\* ------------------------------------------------------------------ state
VARIABLES
    variant,   \* which router handles the request: "none", "multi", "single";
               \* "ctx" is a use of the client in an async with block
    pc,        \* position of the handler
    req,       \* the inbound request, as far as it has been read
    env,       \* the environment bindings, as far as they have been read
    client,    \* the per-request UnifiedTessieClient (multi-API router)
    session,   \* the aiohttp ClientSession (single-API router)
    pending,   \* the client call being awaited
    calls,     \* HTTP calls sent upstream, in order
    logs,      \* events printed by log_api_call
    probe,     \* check_all: state / status of each family's probe
    probed,    \* check_all: what the upstream did with each family's probe call
    overall,   \* check_all: aggregate status
    authres,   \* check_auth: result per family
    answer,    \* what the upstream did with the awaited proxied call
    resp,      \* the response fetch returned
    raised     \* the exception that left fetch

vars == <<variant, pc, req, env, client, session, pending, calls, logs, probe,
          probed, overall, authres, answer, resp, raised>>

Request(method, url) ==
    [method |-> method, path |-> url.path, query |-> url.query,
     ctype |-> <<>>, body |-> BodyNone, parsed |-> FALSE, auth |-> <<>>, authRead |-> FALSE]
NoRequest == Request(NONE, Url(<<>>, NoQuery))

UNREAD == "UNREAD"
NoEnv ==
    [tessie |-> UNREAD, telemetry |-> UNREAD, fleet |-> UNREAD, jwt_secret |-> UNREAD,
     assets |-> UNREAD, fake |-> UNREAD]
NoPlan == Plan("none", NONE, <<>>, NONE, <<>>, <<>>, NoJson, 0, <<>>)
NoOutcome == Outcome("none", 0, "", NONE)
NoExc == [status |-> 0, msg |-> <<>>, kind |-> "none"]
ByFamily(x) == [f \in Families |-> x]

Init ==
    /\ variant = "none"
    /\ pc = "idle"
    /\ req = NoRequest
    /\ env = NoEnv
    /\ client = NoClient
    /\ session = "none"
    /\ pending = NoPlan
    /\ calls = <<>>
    /\ logs = <<>>
    /\ probe = ByFamily("idle")
    /\ probed = ByFamily(NoOutcome)
    /\ overall = NONE
    /\ authres = ByFamily("unchecked")
    /\ answer = NoOutcome
    /\ resp = NoResp
    /\ raised = NoExc

\* ------------------------------------------ src_python/main.py: fetch
HealthPath == <<"/", "health">>
StatusPath == <<"/", "status">>
BodyMethods == {"POST", "PUT", "PATCH"}

FamilyOfPath(path) ==
    IF StartsWith(path, PrefixOf("tessie") \o Sl) THEN "tessie"
    ELSE IF StartsWith(path, PrefixOf("telemetry") \o Sl) THEN "telemetry"
    ELSE IF StartsWith(path, PrefixOf("fleet") \o Sl) THEN "fleet"
    ELSE NONE

IsCheckRoute(r) == r.path \in {HealthPath, StatusPath} /\ r.method = "GET"

NotConfiguredMsg(family) ==
    CASE family = "tessie" -> <<"Tessie API not configured">>
      [] family = "telemetry" -> <<"Teslemetry API not configured">>
      [] family = "fleet" -> <<"Tesla Fleet API not configured">>

InternalErrorMsg(detail) == <<"Internal Server Error: ">> \o detail

\* lines 89-104: read method, path and the three keys, build the client
MultiReceive ==
    /\ pc = "idle"
    /\ \E m \in Methods, u \in MultiUrls, k \in MultiEnvs :
        /\ req' = Request(m, u)
        /\ env' = [env EXCEPT !.tessie = k.tessie, !.telemetry = k.telemetry,
                              !.fleet = k.fleet]
        /\ client' = UnifiedTessieClient(k)
    /\ variant' = "multi"
    /\ pc' = "m_route"
    /\ UNCHANGED <<answer, session, pending, calls, logs, probe, probed, overall, authres, resp,
                   raised>>

\* calls sent by the configured families among fams (a sequence), in order;
\* plans maps a family to its call
RECURSIVE CallsFor(_, _, _)
CallsFor(fams, c, plans) ==
    IF fams = <<>> THEN <<>>
    ELSE (IF c[Head(fams)] = NONE THEN <<>>
          ELSE <<HttpCall(Head(fams), c[Head(fams)], plans[Head(fams)])>>)
         \o CallsFor(Tail(fams), c, plans)

\* lines 109-112 / 116-119 and health.py 235-240: check_all starts the three
\* probes; an unconfigured family answers UNKNOWN without a call, the others
\* send their call and wait
MultiStartCheckAll ==
    /\ pc = "m_route"
    /\ IsCheckRoute(req)
    /\ probe' = [f \in Families |-> IF client[f] = NONE THEN "UNKNOWN" ELSE "pending"]
    /\ calls' = calls \o CallsFor(FamilyOrder, client, [f \in Families |-> ProbePlan(f)])
    /\ pc' = "m_check_all"
    /\ UNCHANGED <<answer, variant, req, env, client, session, pending, logs, probed, overall,
                   authres, resp, raised>>

\* variant: fail-fast, a probe that does not come out HEALTHY cancels the
\* probes still waiting
ProbeReturnFailFast(f) ==
    /\ pc = "m_check_all"
    /\ probe[f] = "pending"
    /\ \E o \in ProbeOutcomes :
        LET r == RequestResult(f, ProbePlan(f), o)
            st == ProbeStatus(f, r)
        IN  /\ probe' = [g \in Families |->
                            IF g = f THEN st
                            ELSE IF st # "HEALTHY" /\ probe[g] = "pending" THEN "cancelled"
                            ELSE probe[g]]
            /\ probed' = [probed EXCEPT ![f] = o]
            /\ logs' = logs \o r.logs
    /\ UNCHANGED <<answer, variant, pc, req, env, client, session, pending, calls,
                   overall, authres, resp, raised>>

\* health.py 64-108 (and the two sibling probes): one probe's call returns
ProbeReturn(f) ==
    /\ pc = "m_check_all"
    /\ probe[f] = "pending"
    /\ \E o \in ProbeOutcomes :
        LET r == RequestResult(f, ProbePlan(f), o)
        IN  /\ probe' = [probe EXCEPT ![f] = ProbeStatus(f, r)]
            /\ probed' = [probed EXCEPT ![f] = o]
            /\ logs' = logs \o r.logs
    /\ UNCHANGED <<answer, variant, pc, req, env, client, session, pending, calls,
                   overall, authres, resp, raised>>

\* first family from position i on that has a client (4: none)
RECURSIVE AuthNext(_, _)
AuthNext(i, c) ==
    IF i > Len(FamilyOrder) THEN i
    ELSE IF c[FamilyOrder[i]] # NONE THEN i ELSE AuthNext(i + 1, c)

HealthResponse == Resp(200, "health", <<>>, NONE)
StatusResponse == Resp(200, "status", <<>>, NONE)

\* check_auth from position i: either the next configured family sends its
\* call, or check_auth is over and fetch closes the client and answers
CheckAuthFrom(i, res) ==
    LET j == AuthNext(i, client)
    IN  IF j <= Len(FamilyOrder)
        THEN /\ authres' = [res EXCEPT ![FamilyOrder[j]] = "pending"]
             /\ calls' = Append(calls, HttpCall(FamilyOrder[j], client[FamilyOrder[j]],
                                                AuthPlan(FamilyOrder[j])))
             /\ pc' = "m_check_auth"
             /\ UNCHANGED <<client, resp>>
        ELSE /\ authres' = res
             /\ client' = Close(client)
             /\ resp' = StatusResponse
             /\ pc' = "done"
             /\ UNCHANGED calls

\* health.py 235-252: the three probes are joined and the aggregate computed;
\* main.py 113-114 (/health) or 120 (/status, check_auth starts)
CheckAllJoin ==
    /\ pc = "m_check_all"
    /\ \A f \in Families : probe[f] \notin {"idle", "pending"}
    /\ overall' = OverallStatus([i \in 1..3 |-> probe[FamilyOrder[i]]])
    /\ IF req.path = HealthPath
       THEN /\ client' = Close(client)
            /\ resp' = HealthResponse
            /\ pc' = "done"
            /\ UNCHANGED <<authres, calls>>
       ELSE CheckAuthFrom(1, [f \in Families |->
                                 IF client[f] = NONE THEN "none" ELSE "unchecked"])
    /\ UNCHANGED <<answer, variant, req, env, session, pending, logs, probe, probed, raised>>

\* health.py 294-352: the awaited call of check_auth returns
CheckAuthReturn ==
    /\ pc = "m_check_auth"
    /\ \E i \in 1..Len(FamilyOrder), o \in AuthOutcomes :
        LET f == FamilyOrder[i]
            r == RequestResult(f, AuthPlan(f), o)
        IN  /\ authres[f] = "pending"
            /\ logs' = logs \o r.logs
            /\ CheckAuthFrom(i + 1, [authres EXCEPT ![f] = IF r.ok THEN "valid" ELSE "invalid"])
    /\ UNCHANGED <<answer, variant, req, env, session, pending, probe, probed, overall, raised>>

\* what the family's branch reads of the request body: the Content-Type and,
\* for application/json, the result of request.json() (lines 143, 273);
\* the telemetry branch and the other methods read nothing
BodyInputs(family, method) ==
    IF family \in {"tessie", "fleet"} /\ method \in BodyMethods
    THEN UNION {{[ctype |-> c, body |-> b, parsed |-> TRUE] :
                    b \in IF StartsWith(c, JsonCType) THEN MultiBodies ELSE {BodyNone}}
                : c \in ContentTypes}
    ELSE {[ctype |-> <<>>, body |-> BodyNone, parsed |-> FALSE]}

InvalidJsonMsg == <<"Invalid JSON body: ", "Expecting value">>

\* lines 141-204: parse the request, then match it against the table
MultiPlan(family, r, inp) ==
    LET endpoint == extract_path_suffix(r.path, PrefixOf(family))
        params == parse_query_params(r.query)
        pj == IF inp.parsed THEN parse_json_body(inp.ctype, inp.body)
              ELSE [raised |-> FALSE, body |-> BodyNone]
    IN  IF pj.raised THEN RaiseHTTP(400, InvalidJsonMsg)
        ELSE MultiRoute(family, r.method, endpoint, params, pj.body)

\* the response fetch gives when the branch ends without an upstream call:
\* the else branch (202-204), HTTPException (315-317), Exception (319-322)
LocalResponse(plan) ==
    CASE plan.kind = "notfound" -> error_response(404, plan.msg)
      [] plan.kind = "http_exc" -> error_response(plan.status, plan.msg)
      [] plan.kind = "exc" -> error_response(500, InternalErrorMsg(plan.msg))

\* lines 136-204 (tessie), 215-255 (telemetry), 266-296 (fleet), up to the
\* point where the client call is awaited
MultiFamily(f) ==
    /\ pc = "m_route"
    /\ ~IsCheckRoute(req)
    /\ FamilyOfPath(req.path) = f
    /\ IF client[f] = NONE
       THEN /\ client' = Close(client)
            /\ resp' = error_response(503, NotConfiguredMsg(f))
            /\ pc' = "done"
            /\ UNCHANGED <<req, pending, calls>>
       ELSE \E inp \in BodyInputs(f, req.method) :
            LET plan == MultiPlan(f, req, inp)
            IN  /\ req' = [req EXCEPT !.ctype = inp.ctype, !.body = inp.body,
                                      !.parsed = inp.parsed]
                /\ IF plan.kind = "call"
                   THEN /\ pending' = plan
                        /\ calls' = Append(calls, HttpCall(f, client[f], plan))
                        /\ pc' = "m_call"
                        /\ UNCHANGED <<client, resp>>
                   ELSE /\ client' = Close(client)
                        /\ resp' = LocalResponse(plan)
                        /\ pc' = "done"
                        /\ UNCHANGED <<pending, calls>>
    /\ UNCHANGED <<answer, variant, env, session, logs, probe, probed, overall, authres, raised>>

\* variant: the upstream status is dropped
UpstreamResponseAlways500(r) ==
    IF r.ok THEN json_response(r.json) ELSE error_response(500, r.err.message)

\* the response for the result of the awaited client call: lines 206-207
\* on success, 209-211 on TessieAPIError (and the sibling branches)
UpstreamResponse(r) ==
    IF r.ok THEN json_response(r.json)
    ELSE error_response(IF r.err.known /\ r.err.code # 0 THEN r.err.code ELSE 500,
                        r.err.message)

\* variant: a failed call is sent once more before fetch answers
MultiUpstreamReturnRetry ==
    /\ pc = "m_call"
    /\ \E o \in Outcomes :
        LET r == RequestResult(FamilyOfPath(req.path), pending, o)
        IN  /\ answer' = o
            /\ logs' = logs \o r.logs
            /\ IF ~r.ok /\ Len(calls) < 2
               THEN /\ calls' = Append(calls, calls[Len(calls)])
                    /\ UNCHANGED <<resp, client, pc>>
               ELSE /\ resp' = UpstreamResponse(r)
                    /\ client' = Close(client)
                    /\ pc' = "done"
                    /\ UNCHANGED calls
    /\ UNCHANGED <<variant, req, env, session, pending, probe, probed, overall, authres, raised>>

\* the awaited client call returns or raises; fetch closes and answers
MultiUpstreamReturn ==
    /\ pc = "m_call"
    /\ \E o \in Outcomes :
        LET r == RequestResult(FamilyOfPath(req.path), pending, o)
        IN  /\ answer' = o
            /\ logs' = logs \o r.logs
            /\ resp' = UpstreamResponse(r)
    /\ client' = Close(client)
    /\ pc' = "done"
    /\ UNCHANGED <<variant, req, env, session, pending, calls, probe, probed, overall, authres,
                   raised>>

\* the ASSETS binding: absent, serving, or failing
AssetsBindings == {NONE, "serves", "raises"}
AssetResponse == Resp(200, "asset", <<>>, NONE)

\* lines 307-313, and 319-322 when the binding raises after the close
MultiStatic ==
    /\ pc = "m_route"
    /\ ~IsCheckRoute(req)
    /\ FamilyOfPath(req.path) = NONE
    /\ \E a \in AssetsBindings :
        /\ env' = [env EXCEPT !.assets = a]
        /\ CASE a = NONE ->
                  /\ client' = Close(client)
                  /\ resp' = error_response(404, <<"Not Found">>)
             [] a = "serves" ->
                  /\ client' = Close(client)
                  /\ resp' = AssetResponse
             [] a = "raises" ->
                  /\ client' = Close(Close(client))
                  /\ resp' = error_response(500, InternalErrorMsg(<<"asset fetch failed">>))
    /\ pc' = "done"
    /\ UNCHANGED <<answer, variant, req, session, pending, calls, logs, probe, probed, overall,
                   authres, raised>>

MultiNext ==
    \/ MultiReceive
    \/ MultiStartCheckAll
    \/ \E f \in Families : ProbeReturn(f)
    \/ CheckAllJoin
    \/ CheckAuthReturn
    \/ \E f \in Families : MultiFamily(f)
    \/ MultiUpstreamReturn
    \/ MultiStatic

\* ================================================== src/main.py (gated)
\* ---------------------------------------------------------------- inputs
\* bearer tokens a caller may present; jwt.decode accepts a token when it is
\* well formed, signed with the configured secret and not expired
JwtInfo(signed_with, expired, wellformed) ==
    [signed_with |-> signed_with, expired |-> expired, wellformed |-> wellformed]
JwtNames == {"jwtGood", "jwtOtherKey", "jwtExpired", "jwtGarbage"}
JwtOf(name) ==
    CASE name = "jwtGood" -> JwtInfo("secret1", FALSE, TRUE)
      [] name = "jwtOtherKey" -> JwtInfo("secret2", FALSE, TRUE)
      [] name = "jwtExpired" -> JwtInfo("secret1", TRUE, TRUE)
      [] name = "jwtGarbage" -> JwtInfo(NONE, FALSE, FALSE)
      [] OTHER -> JwtInfo(NONE, FALSE, FALSE)

\* jwt.decode(token, secret, algorithms=["HS256"]) succeeds
JwtDecodes(token, secret) ==
    /\ Len(token) = 1
    /\ JwtOf(token[1]).wellformed
    /\ JwtOf(token[1]).signed_with = secret
    /\ ~JwtOf(token[1]).expired

\* Authorization header values; <<>> is the missing (or empty) header
AuthHeaders ==
    {<<>>, <<"Bearer">>, <<"Bearer", " ">>, <<"Bearer", " ", " ">>,
     <<"Basic", " ", "jwtGood">>, <<"bearer", " ", "jwtGood">>,
     <<"Bearer", " ", " ", "jwtGood", " ">>}
    \cup {<<"Bearer", " ", t>> : t \in JwtNames}
JwtSecrets == {NONE, "", "secret1"}

SinglePaths ==
    {<<"/", "status">>, <<"/", "wake">>, <<"/", "command", "/", "start_charging">>,
     <<"/", "command", "/", "set_charge_limit">>, <<"/", "status", "/">>, <<"/", "bogus">>}
VinQs == {<<>>} \cup {<<v>> : v \in Vins} \cup {<<v, v>> : v \in Vins}
SingleUrls == {Url(p, Query(<<>>, <<>>, <<>>, q)) : p \in SinglePaths, q \in VinQs}
SingleBodies ==
    {Body("invalid", Absent, Absent), Body("list", Absent, Absent)}
    \cup {Body("object", v, p) : v \in BodyVinVals, p \in PercentVals}
SingleKeys == {NONE, "", "keyT"}

\* ------------------------------------------------------ _authorize_request
HTTPException(status, msg) == [status |-> status, msg |-> msg, kind |-> "HTTPException"]

\* variant: the token is verified before the secret is looked at
authorize_requestVerifyFirst(authorization, jwt_secret) ==
    IF authorization = <<>> \/ ~StartsWith(authorization, <<"Bearer", " ">>)
    THEN HTTPException(401, <<"Missing or invalid Authorization header">>)
    ELSE LET token == Strip(Split1(authorization, <<" ">>)[2])
         IN  IF token = <<>> THEN HTTPException(401, <<"Missing bearer token">>)
             ELSE IF ~JwtDecodes(token, jwt_secret)
                  THEN HTTPException(403, <<"Invalid token">>)
             ELSE IF ~Truthy(jwt_secret)
                  THEN HTTPException(500, <<"JWT secret is not configured">>)
             ELSE NoExc

\* the exception _authorize_request raises, NoExc when it returns
authorize_request(authorization, jwt_secret) ==
    IF authorization = <<>> \/ ~StartsWith(authorization, <<"Bearer", " ">>)
    THEN HTTPException(401, <<"Missing or invalid Authorization header">>)
    ELSE LET token == Strip(Split1(authorization, <<" ">>)[2])
         IN  IF token = <<>> THEN HTTPException(401, <<"Missing bearer token">>)
             ELSE IF ~Truthy(jwt_secret)
                  THEN HTTPException(500, <<"JWT secret is not configured">>)
             ELSE IF ~JwtDecodes(token, jwt_secret)
                  THEN HTTPException(403, <<"Invalid token">>)
             ELSE NoExc

\* the secret is read (line 41) only when the header carries a token
ReadsSecret(authorization) ==
    /\ StartsWith(authorization, <<"Bearer", " ">>)
    /\ Strip(Split1(authorization, <<" ">>)[2]) # <<>>

\* ------------------------------------------------------ request parsing
\* _extract_vin: [ok, vin]; ok = FALSE is HTTPException(400)
extract_vin(params) ==
    LET vin == IF params.vin.t = "list" THEN JStr(<<params.vin.s[1]>>) ELSE params.vin
    IN  IF vin.t # "str" \/ vin.s = <<>> THEN [ok |-> FALSE, vin |-> <<>>]
        ELSE [ok |-> TRUE, vin |-> vin.s]

\* _parse_request_data: the exception raised (NoExc: none) and the params
NoParams == [vin |-> Absent, percent |-> Absent]
parse_request_data(method, query, ctype, body) ==
    IF method = "GET"
    THEN [exc |-> NoExc, params |-> [vin |-> ParamOf(query.vin), percent |-> Absent]]
    ELSE IF StartsWith(ctype, JsonCType)
    THEN IF body.kind = "invalid"
         THEN [exc |-> HTTPException(400, <<"Invalid JSON body">>), params |-> NoParams]
         ELSE IF body.kind # "object"
         THEN [exc |-> HTTPException(400, <<"JSON body must be an object">>),
               params |-> NoParams]
         ELSE [exc |-> NoExc, params |-> [vin |-> body.vin, percent |-> body.percent]]
    ELSE [exc |-> HTTPException(400, <<"Unsupported content type">>), params |-> NoParams]

\* --------------------------------------------------------------- handlers
\* tessie_api.get_state / wake / start_charging / set_charge_limit: one
\* upstream operation each, with the paths of the vehicle-REST catalog
get_state(vin) == Tessie_state(vin)
wake(vin) == Tessie_wake(vin)
start_charging(vin) == Tessie_command("start_charging", vin)
set_charge_limit(vin, percent) == Tessie_set_charge_limit(vin, percent)

MissingVin == RaiseHTTP(400, <<"Missing required 'vin' parameter">>)

handle_status(params) ==
    IF ~extract_vin(params).ok THEN MissingVin ELSE get_state(extract_vin(params).vin)
handle_wake(params) ==
    IF ~extract_vin(params).ok THEN MissingVin ELSE wake(extract_vin(params).vin)
handle_start_charging(params) ==
    IF ~extract_vin(params).ok THEN MissingVin ELSE start_charging(extract_vin(params).vin)
handle_set_charge_limit(params) ==
    IF ~extract_vin(params).ok THEN MissingVin
    ELSE IF IsNone(params.percent)
         THEN RaiseHTTP(400, <<"Missing required 'percent' parameter">>)
    ELSE IF ~IntCoerce(params.percent).ok
         THEN RaiseHTTP(400, <<"'percent' must be an integer">>)
    ELSE set_charge_limit(extract_vin(params).vin, IntCoerce(params.percent).n)

\* the route table of fetch (lines 125-130): the handler's name, NONE when
\* the (method, path) pair is not in the table
RouteOf(method, path) ==
    IF method = "GET" /\ path = <<"/", "status">> THEN "status"
    ELSE IF method = "POST" /\ path = <<"/", "wake">> THEN "wake"
    ELSE IF method = "POST" /\ path = <<"/", "command", "/", "start_charging">>
         THEN "start_charging"
    ELSE IF method = "POST" /\ path = <<"/", "command", "/", "set_charge_limit">>
         THEN "set_charge_limit"
    ELSE NONE

\* the keys of the route table, each compared on its own (lines 125-133)
SinglePredicates(method, path) ==
    <<method = "GET" /\ path = <<"/", "status">>,
      method = "POST" /\ path = <<"/", "wake">>,
      method = "POST" /\ path = <<"/", "command", "/", "start_charging">>,
      method = "POST" /\ path = <<"/", "command", "/", "set_charge_limit">>>>

Handle(route, params) ==
    CASE route = "status" -> handle_status(params)
      [] route = "wake" -> handle_wake(params)
      [] route = "start_charging" -> handle_start_charging(params)
      [] route = "set_charge_limit" -> handle_set_charge_limit(params)

\* ------------------------------------------------------ src/main.py: fetch
SingleReceive ==
    /\ pc = "idle"
    /\ \E m \in Methods, u \in SingleUrls : req' = Request(m, u)
    /\ variant' = "single"
    /\ pc' = "s_auth"
    /\ UNCHANGED <<answer, env, client, session, pending, calls, logs, probe, probed, overall,
                   authres, resp, raised>>

\* line 123: the gate runs outside any try block, so the exception it raises
\* leaves fetch.  env.jwt_secret is the JWT_SECRET binding of the deployment,
\* whether or not the gate gets as far as reading it (ReadsSecret).
SingleAuthorize ==
    /\ pc = "s_auth"
    /\ \E h \in AuthHeaders, secret \in JwtSecrets :
        /\ req' = [req EXCEPT !.auth = h, !.authRead = TRUE]
        /\ env' = [env EXCEPT !.jwt_secret = secret]
        /\ raised' = authorize_request(h, secret)
        /\ pc' = IF authorize_request(h, secret) = NoExc THEN "s_route" ELSE "done"
    /\ UNCHANGED <<answer, variant, client, session, pending, calls, logs, probe, probed,
                   overall, authres, resp>>

\* what _parse_request_data reads besides the URL
SingleBodyInputs(method) ==
    IF method = "GET" THEN {[ctype |-> <<>>, body |-> BodyNone, parsed |-> FALSE]}
    ELSE UNION {{[ctype |-> c, body |-> b, parsed |-> TRUE] :
                    b \in IF StartsWith(c, JsonCType) THEN SingleBodies ELSE {BodyNone}}
                : c \in ContentTypes}

NotFoundResponse == error_response(404, <<"Not Found">>)
KeyMissingResponse == error_response(500, <<"Tessie API key is not configured">>)
InternalErrorResponse == error_response(500, <<"Internal Server Error">>)
FakeJson == "fakejson"

\* lines 132-135: no route
SingleNotFound ==
    /\ pc = "s_route"
    /\ RouteOf(req.method, req.path) = NONE
    /\ resp' = NotFoundResponse
    /\ pc' = "done"
    /\ UNCHANGED <<answer, variant, req, env, client, session, pending, calls, logs,
                   probe, probed, overall, authres, raised>>

\* lines 137-146: the key, the parameters, the session and the handler, up to
\* the HTTP call of tessieRequest (tessie_wrapper.py 23-46)
SingleDispatch ==
    /\ pc = "s_route"
    /\ RouteOf(req.method, req.path) # NONE
    /\ \E key \in SingleKeys :
        IF ~Truthy(key)
        THEN /\ env' = [env EXCEPT !.tessie = key]
             /\ resp' = KeyMissingResponse
             /\ pc' = "done"
             /\ UNCHANGED <<req, session, pending, calls>>
        ELSE \E inp \in SingleBodyInputs(req.method), fake \in BOOLEAN :
             LET pr == parse_request_data(req.method, req.query, inp.ctype, inp.body)
                 plan == Handle(RouteOf(req.method, req.path), pr.params)
                 called == pr.exc = NoExc /\ plan.kind = "call"
             IN  /\ called \/ ~fake
                 /\ req' = [req EXCEPT !.ctype = inp.ctype, !.body = inp.body,
                                       !.parsed = inp.parsed]
                 /\ env' = [env EXCEPT !.tessie = key,
                                       !.fake = IF called THEN (IF fake THEN "yes" ELSE "no")
                                                ELSE UNREAD]
                 /\ IF pr.exc # NoExc
                    THEN /\ resp' = error_response(pr.exc.status, pr.exc.msg)
                         /\ pc' = "done"
                         /\ UNCHANGED <<session, pending, calls>>
                    ELSE IF plan.kind # "call"
                    THEN /\ session' = "closed"
                         /\ resp' = error_response(plan.status, plan.msg)
                         /\ pc' = "done"
                         /\ UNCHANGED <<pending, calls>>
                    ELSE IF fake
                    THEN /\ session' = "closed"
                         /\ resp' = json_response(FakeJson)
                         /\ pc' = "done"
                         /\ UNCHANGED <<pending, calls>>
                    ELSE /\ session' = "open"
                         /\ pending' = plan
                         /\ calls' = Append(calls, HttpCall("tessie", key, plan))
                         /\ pc' = "s_call"
                         /\ UNCHANGED resp
    /\ UNCHANGED <<answer, variant, client, logs, probe, probed, overall, authres, raised>>

\* tessie_wrapper.py 44-46 and main.py 143-150: the call returns; every
\* failure is an exception other than HTTPException
SingleUpstreamReturn ==
    /\ pc = "s_call"
    /\ \E o \in Outcomes :
        /\ answer' = o
        /\ resp' = IF o.kind = "ok" THEN json_response(o.json) ELSE InternalErrorResponse
    /\ session' = "closed"
    /\ pc' = "done"
    /\ UNCHANGED <<variant, req, env, client, pending, calls, logs, probe, probed, overall,
                   authres, raised>>

SingleNext ==
    \/ SingleReceive
    \/ SingleAuthorize
    \/ SingleNotFound
    \/ SingleDispatch
    \/ SingleUpstreamReturn

\* ============ src_python/tessie_client.py: async with UnifiedTessieClient
\* every combination of a missing, an empty and a non-empty token
CtxTokens ==
    {Keys(t, m, f) : t \in {NONE, "", "keyT"}, m \in {NONE, "", "keyM"},
                     f \in {NONE, "", "keyF"}}
BlockError == [status |-> 0, msg |-> <<"raised in the block">>, kind |-> "Exception"]

\* __init__ and __aenter__: the client is built and bound by the block
CtxEnter ==
    /\ pc = "idle"
    /\ \E k \in CtxTokens :
        /\ env' = [env EXCEPT !.tessie = k.tessie, !.telemetry = k.telemetry,
                              !.fleet = k.fleet]
        /\ client' = UnifiedTessieClient(k)
    /\ variant' = "ctx"
    /\ pc' = "c_block"
    /\ UNCHANGED <<answer, req, session, pending, calls, logs, probe, probed, overall, authres,
                   resp, raised>>

\* variant: __aexit__ closes the pool on a normal exit only
CtxExitNormalOnly ==
    /\ pc = "c_block"
    /\ \E byException \in BOOLEAN :
        /\ client' = IF byException THEN client ELSE Close(client)
        /\ raised' = IF byException THEN BlockError ELSE NoExc
    /\ pc' = "c_exited"
    /\ UNCHANGED <<answer, variant, req, env, session, pending, calls, logs, probe, probed,
                   overall, authres, resp>>

\* __aexit__: the block is left, normally or by an exception, which goes on
\* to the caller (__aexit__ returns None)
CtxExit ==
    /\ pc = "c_block"
    /\ \E byException \in BOOLEAN :
        /\ client' = Close(client)
        /\ raised' = IF byException THEN BlockError ELSE NoExc
    /\ pc' = "c_exited"
    /\ UNCHANGED <<answer, variant, req, env, session, pending, calls, logs, probe, probed,
                   overall, authres, resp>>

CtxNext == CtxEnter \/ CtxExit

Next == MultiNext \/ SingleNext \/ CtxNext

Spec == Init /\ [][Next]_vars

\* ================================ several requests in flight (ConcSpec)
\* In ConcSpec every variable that belongs to a request holds one value per
\* request in flight (a function over Rids); calls is the one upstream, and
\* each call is tagged with the request that sent it and the pool it used.
\* The handlers are the ones above, cut at the same await points.
NumRequests == 2
Rids == 1..NumRequests

ConcVin == AllVins[1]
ConcUrls ==
    {Url(PrefixOf("tessie") \o <<"/", ConcVin, "/", "state">>, NoQuery),
     Url(PrefixOf("tessie") \o <<"/", ConcVin, "/", "wake">>, NoQuery),
     Url(PrefixOf("telemetry") \o <<"/", "ping">>, NoQuery)}
ConcMethods == {"GET", "POST"}
\* the env object handed to each fetch call
ConcEnvs == {Keys("key1", "key1", NONE), Keys("key2", NONE, "key2")}
ConcSingleKeys == {NONE, "key2"}
ConcOutcomes == {o \in Outcomes : o.kind = "transport" \/ (o.kind = "ok" /\ o.json # JsonArray)}
ConcBodyInputs(method) ==
    IF method \in BodyMethods
    THEN {[ctype |-> JsonCType, body |-> BodyEmpty, parsed |-> TRUE]}
    ELSE {[ctype |-> <<>>, body |-> BodyNone, parsed |-> FALSE]}

\* variant: one module-level client shared by all requests
ClientOfShared(r) == 1

\* the client a request uses is the local variable of its own fetch call
\* (main.py 99)
ClientOf(r) == r

TaggedCall(r, pool, call) == [rid |-> r, pool |-> pool, call |-> call]

ConcInit ==
    /\ variant = [r \in Rids |-> "none"]
    /\ pc = [r \in Rids |-> "idle"]
    /\ req = [r \in Rids |-> NoRequest]
    /\ env = [r \in Rids |-> NoEnv]
    /\ client = [r \in Rids |-> NoClient]
    /\ session = [r \in Rids |-> "none"]
    /\ pending = [r \in Rids |-> NoPlan]
    /\ answer = [r \in Rids |-> NoOutcome]
    /\ resp = [r \in Rids |-> NoResp]
    /\ calls = <<>>
    /\ logs = <<>>
    /\ probe = ByFamily("idle")
    /\ probed = ByFamily(NoOutcome)
    /\ overall = NONE
    /\ authres = ByFamily("unchecked")
    /\ raised = NoExc

\* src_python/main.py 89-104
ConcMultiReceive(r) ==
    /\ pc[r] = "idle"
    /\ \E m \in ConcMethods, u \in ConcUrls, k \in ConcEnvs :
        /\ req' = [req EXCEPT ![r] = Request(m, u)]
        /\ env' = [env EXCEPT ![r] = [NoEnv EXCEPT !.tessie = k.tessie,
                                                   !.telemetry = k.telemetry,
                                                   !.fleet = k.fleet]]
        /\ client' = [client EXCEPT ![ClientOf(r)] = UnifiedTessieClient(k)]
    /\ variant' = [variant EXCEPT ![r] = "multi"]
    /\ pc' = [pc EXCEPT ![r] = "m_route"]
    /\ UNCHANGED <<session, pending, answer, resp, calls, logs, probe, probed, overall, authres,
                   raised>>

\* src_python/main.py 136-204 and the sibling branches, up to the awaited call
ConcMultiRoute(r) ==
    /\ pc[r] = "m_route"
    /\ LET f == FamilyOfPath(req[r].path)
           c == client[ClientOf(r)]
       IN  IF c[f] = NONE
           THEN /\ client' = [client EXCEPT ![ClientOf(r)] = Close(c)]
                /\ resp' = [resp EXCEPT ![r] = error_response(503, NotConfiguredMsg(f))]
                /\ pc' = [pc EXCEPT ![r] = "done"]
                /\ UNCHANGED <<req, pending, calls>>
           ELSE \E inp \in ConcBodyInputs(req[r].method) :
                LET plan == MultiPlan(f, req[r], inp)
                IN  /\ req' = [req EXCEPT ![r].ctype = inp.ctype, ![r].body = inp.body,
                                          ![r].parsed = inp.parsed]
                    /\ IF plan.kind = "call"
                       THEN /\ pending' = [pending EXCEPT ![r] = plan]
                            /\ calls' = Append(calls, TaggedCall(r, ClientOf(r),
                                                                 HttpCall(f, c[f], plan)))
                            /\ pc' = [pc EXCEPT ![r] = "m_call"]
                            /\ UNCHANGED <<client, resp>>
                       ELSE /\ client' = [client EXCEPT ![ClientOf(r)] = Close(c)]
                            /\ resp' = [resp EXCEPT ![r] = LocalResponse(plan)]
                            /\ pc' = [pc EXCEPT ![r] = "done"]
                            /\ UNCHANGED <<pending, calls>>
    /\ UNCHANGED <<variant, env, session, answer, logs, probe, probed, overall, authres, raised>>

\* src_python/main.py 206-211: the awaited call is over
ConcMultiReturn(r) ==
    /\ pc[r] = "m_call"
    /\ \E o \in ConcOutcomes :
        /\ answer' = [answer EXCEPT ![r] = o]
        /\ resp' = [resp EXCEPT ![r] =
                       UpstreamResponse(RequestResult(FamilyOfPath(req[r].path), pending[r], o))]
    /\ client' = [client EXCEPT ![ClientOf(r)] = Close(client[ClientOf(r)])]
    /\ pc' = [pc EXCEPT ![r] = "done"]
    /\ UNCHANGED <<variant, req, env, session, pending, calls, logs, probe, probed, overall,
                   authres, raised>>

\* src/main.py 122-144 for an authorized GET /status?vin=<vin>: the key is
\* read, the session opened and the call sent
ConcSingleReceive(r) ==
    /\ pc[r] = "idle"
    /\ \E key \in ConcSingleKeys :
        LET plan == handle_status([vin |-> JStr(<<ConcVin>>), percent |-> Absent])
        IN  /\ req' = [req EXCEPT ![r] = Request("GET", Url(<<"/", "status">>,
                                                   Query(<<>>, <<>>, <<>>, <<ConcVin>>)))]
            /\ env' = [env EXCEPT ![r] = [NoEnv EXCEPT !.tessie = key]]
            /\ IF ~Truthy(key)
               THEN /\ resp' = [resp EXCEPT ![r] = KeyMissingResponse]
                    /\ pc' = [pc EXCEPT ![r] = "done"]
                    /\ UNCHANGED <<session, pending, calls>>
               ELSE /\ session' = [session EXCEPT ![r] = "open"]
                    /\ pending' = [pending EXCEPT ![r] = plan]
                    /\ calls' = Append(calls, TaggedCall(r, r, HttpCall("tessie", key, plan)))
                    /\ pc' = [pc EXCEPT ![r] = "s_call"]
                    /\ UNCHANGED resp
    /\ variant' = [variant EXCEPT ![r] = "single"]
    /\ UNCHANGED <<client, answer, logs, probe, probed, overall, authres, raised>>

\* src/main.py 143-150
ConcSingleReturn(r) ==
    /\ pc[r] = "s_call"
    /\ \E o \in ConcOutcomes :
        /\ answer' = [answer EXCEPT ![r] = o]
        /\ resp' = [resp EXCEPT ![r] =
                       IF o.kind = "ok" THEN json_response(o.json) ELSE InternalErrorResponse]
    /\ session' = [session EXCEPT ![r] = "closed"]
    /\ pc' = [pc EXCEPT ![r] = "done"]
    /\ UNCHANGED <<variant, req, env, client, pending, calls, logs, probe, probed, overall,
                   authres, raised>>

ConcNext ==
    \E r \in Rids :
        \/ ConcMultiReceive(r)
        \/ ConcMultiRoute(r)
        \/ ConcMultiReturn(r)
        \/ ConcSingleReceive(r)
        \/ ConcSingleReturn(r)

ConcSpec == ConcInit /\ [][ConcNext]_vars

\* ====================================================== properties
MultiDone == variant = "multi" /\ pc = "done"
SingleDone == variant = "single" /\ pc = "done"
UnderPrefix(f) == StartsWith(req.path, PrefixOf(f) \o Sl)
BearerPrefix == <<"Bearer", " ">>

\* the Authorization header carries no bearer token: it is missing, does not
\* start with "Bearer ", or nothing but blanks follows the prefix
NoBearerToken(h) ==
    \/ h = <<>>
    \/ ~StartsWith(h, BearerPrefix)
    \/ Strip(SubSeq(h, Len(BearerPrefix) + 1, Len(h))) = <<>>
BearerToken(h) == Strip(SubSeq(h, Len(BearerPrefix) + 1, Len(h)))

\* C1: in the gated router, a request without a usable bearer token is
\* answered by a response with status 401, with no upstream call and no
\* upstream session.  (Refuted: the gate's exception leaves fetch.)
C1_MissingTokenGets401 ==
    (variant = "single" /\ req.authRead /\ NoBearerToken(req.auth))
        => (resp.status = 401 /\ calls = <<>> /\ session = "none")

\* C2: in the gated router, a request whose bearer token fails verification
\* under the configured secret is answered by a response with status 403,
\* with no upstream call.  (Refuted: the gate's exception leaves fetch.)
C2_BadTokenGets403 ==
    (variant = "single" /\ req.authRead /\ ~NoBearerToken(req.auth)
       /\ Truthy(env.jwt_secret) /\ env.jwt_secret # UNREAD
       /\ ~JwtDecodes(BearerToken(req.auth), env.jwt_secret))
        => (resp.status = 403 /\ calls = <<>>)

\* C3: in the multi-API router, a request under the prefix of a family whose
\* key is not configured never sends an upstream call and is answered 503
C3_UnconfiguredFamily503 ==
    \A f \in Families :
        (variant = "multi" /\ UnderPrefix(f) /\ ~Truthy(env[f]))
            => /\ calls = <<>>
               /\ pc \in {"m_route", "done"}
               /\ pc = "done" => (resp.status = 503 /\ raised = NoExc)

C3_Witness ==
    /\ MultiDone
    /\ req.method = "DELETE"
    /\ UnderPrefix("fleet")
    /\ env.fleet = NONE
    /\ env.tessie = "keyT"
    /\ resp.status = 503
    /\ calls = <<>>

\* the request is a set_charge_limit request that reached the handler
IsSetChargeLimit ==
    \/ /\ variant = "single"
       /\ req.method = "POST"
       /\ req.path = <<"/", "command", "/", "set_charge_limit">>
    \/ /\ variant = "multi"
       /\ req.method = "POST"
       /\ Truthy(env.tessie)
       /\ \E v \in Vins :
            req.path = PrefixOf("tessie") \o <<"/", v, "/", "command", "/", "set_charge_limit">>

\* its JSON object has no percent, or one that int() does not accept
BadPercent ==
    /\ req.parsed
    /\ StartsWith(req.ctype, JsonCType)
    /\ req.body.kind = "object"
    /\ ~IntCoerce(req.body.percent).ok

\* C4: a set_charge_limit request whose percent is absent or not
\* integer-coercible is answered 400 without an upstream call, on both
\* routers.  (Refuted on the multi-API router: int() raises, status 500.)
C4_BadPercentGets400 ==
    (pc = "done" /\ IsSetChargeLimit /\ BadPercent)
        => (resp.status = 400 /\ calls = <<>>)

\* C5: in the multi-API router, when the upstream answers the proxied call
\* with a non-2xx status s and body text b, the response has status s and
\* the error message "HTTP s: b"
C5_UpstreamErrorPassedThrough ==
    (MultiDone /\ answer.kind = "http")
        => /\ resp.status = answer.status
           /\ resp.kind = "error"
           /\ resp.error = <<"HTTP ", ToString(answer.status), ": ", answer.text>>

C5_Witness ==
    /\ MultiDone
    /\ answer.kind = "http"
    /\ answer.status = 401
    /\ answer.text = "Unauthorized"
    /\ resp.status = 401
    /\ UnderPrefix("telemetry")

\* the request is GET /api/tessie/<v>/state with the tessie key configured
IsStateRequest(v) ==
    /\ variant = "multi"
    /\ req.method = "GET"
    /\ v # "/"
    /\ req.path = PrefixOf("tessie") \o <<"/", v, "/", "state">>
    /\ Truthy(env.tessie)

\* C6: GET /api/tessie/<vin>/state calls the state operation exactly once
\* with that VIN (upstream GET <vin>/state) and, when the upstream succeeds,
\* answers 200 with the upstream JSON
C6_StateCalledOnce ==
    \A v \in Vins \cup {"vehicles"} :
        IsStateRequest(v)
            => /\ pc \in {"m_route", "m_call", "done"}
               /\ pc = "m_route" => calls = <<>>
               /\ pc \in {"m_call", "done"}
                    => /\ Len(calls) = 1
                       /\ calls[1].api = "tessie"
                       /\ calls[1].method = "GET"
                       /\ calls[1].endpoint = <<v, "/", "state">>
                       /\ pending.op = "state"
               /\ (pc = "done" /\ answer.kind = "ok")
                    => resp = Resp(200, "json", <<>>, answer.json)

C6_Witness ==
    /\ pc = "done"
    /\ Len(calls) = 1
    /\ \E v \in Vins : IsStateRequest(v) /\ calls[1].endpoint = <<v, "/", "state">>
    /\ answer.kind = "ok"
    /\ resp.status = 200
    /\ resp.json = answer.json

\* the descriptor of the request under the prefix of family f
EndpointOf(f) == extract_path_suffix(req.path, PrefixOf(f))

\* no operation of family f's table matches (method, descriptor)
Unmatched(f) ==
    MultiRoute(f, req.method, EndpointOf(f), parse_query_params(req.query),
               BodyNone).kind = "notfound"

\* the branch read a body that is not valid JSON
BodyUnparseable ==
    req.parsed /\ StartsWith(req.ctype, JsonCType) /\ req.body.kind = "invalid"

NotFoundNamesEndpoint(f) ==
    /\ resp.status = 404
    /\ resp.kind = "error"
    /\ Contains(resp.error, EndpointOf(f))
    /\ calls = <<>>

\* C7 as stated: under a configured prefix, every request that matches no
\* operation is answered 404 with a message naming the descriptor, without
\* an upstream call
C7_UnmatchedGets404 ==
    \A f \in Families :
        (MultiDone /\ UnderPrefix(f) /\ Truthy(env[f]) /\ Unmatched(f))
            => NotFoundNamesEndpoint(f)

\* C7 (amended): the same, for requests whose body is not rejected as
\* invalid JSON before the table is consulted
C7_UnmatchedParsedGets404 ==
    \A f \in Families :
        (MultiDone /\ UnderPrefix(f) /\ Truthy(env[f]) /\ Unmatched(f)
           /\ ~BodyUnparseable)
            => NotFoundNamesEndpoint(f)

C7_Witness ==
    /\ MultiDone
    /\ UnderPrefix("tessie")
    /\ EndpointOf("tessie") = <<"bogus">>
    /\ req.method = "POST"
    /\ req.parsed
    /\ req.body.kind = "object"
    /\ resp.status = 404
    /\ resp.error = <<"Tessie endpoint not found: ", "bogus">>

\* C8: in the multi-API router, whenever fetch has produced its response the
\* per-request connection pool is closed
C8_PoolClosedAtResponse ==
    (variant = "multi" /\ (resp # NoResp \/ pc = "done"))
        => (client.pool = "closed" /\ client.closes >= 1)

C8_Witness ==
    /\ MultiDone
    /\ env.assets = "raises"
    /\ resp.status = 500
    /\ client.pool = "closed"

\* C9: no exception leaves fetch, on either router: a finished request has a
\* response.  (Refuted on the gated router: the gate runs outside the try.)
C9_NoExceptionEscapes ==
    pc = "done" => (raised = NoExc /\ resp # NoResp)

\* the three per-family statuses check_all aggregated
ProbeStatuses == [i \in 1..3 |-> probe[FamilyOrder[i]]]
NotUnknown(x) == x # "UNKNOWN"
CountOf(s, x) == Cardinality({i \in 1..Len(s) : s[i] = x})

\* C10: the aggregate is UNHEALTHY for one UNHEALTHY family among HEALTHY
\* ones, DEGRADED for a DEGRADED family and no UNHEALTHY one, HEALTHY when
\* every family that is not UNKNOWN is HEALTHY, and the same as the aggregate
\* of the statuses with the UNKNOWN ones removed
C10_Aggregate ==
    overall # NONE
        => LET s == ProbeStatuses
           IN  /\ (CountOf(s, "UNHEALTHY") = 1 /\ CountOf(s, "HEALTHY") = 2)
                    => overall = "UNHEALTHY"
               /\ (CountOf(s, "DEGRADED") >= 1 /\ CountOf(s, "UNHEALTHY") = 0)
                    => overall = "DEGRADED"
               /\ (\A i \in 1..3 : s[i] \in {"HEALTHY", "UNKNOWN"})
                    => overall = "HEALTHY"
               /\ overall = OverallStatus(SelectSeq(s, NotUnknown))

C10_Witness ==
    /\ overall = "DEGRADED"
    /\ probe.tessie = "UNKNOWN"
    /\ probe.telemetry = "DEGRADED"
    /\ probe.fleet = "HEALTHY"
    /\ resp.status = 200

\* the JWT_SECRET binding is missing or empty
NoJwtSecret == variant = "single" /\ req.authRead /\ ~Truthy(env.jwt_secret)
GateFailed(status) == raised.kind = "HTTPException" /\ raised.status = status

\* C11 as stated: without a configured JWT secret the gate fails with the 500
\* configuration error whatever the Authorization header.  (Refuted: the
\* header is examined first and a missing one fails with 401.)
C11_NoSecretAlways500 ==
    NoJwtSecret => GateFailed(500)

\* C11 (amended): without a configured JWT secret, every request that carries
\* a non-empty bearer token fails at the gate with 500 "JWT secret is not
\* configured", never 403, whatever the token; a request without a usable
\* token fails with 401 and the secret is not read
C11_NoSecretTokenGets500 ==
    NoJwtSecret
        => /\ ~NoBearerToken(req.auth)
                => /\ GateFailed(500)
                   /\ raised.msg = <<"JWT secret is not configured">>
           /\ NoBearerToken(req.auth) => (GateFailed(401) /\ ~ReadsSecret(req.auth))
           /\ pc = "done"
           /\ calls = <<>>

C11_Witness ==
    /\ NoJwtSecret
    /\ env.jwt_secret = ""
    /\ req.auth = <<"Bearer", " ", "jwtGood">>
    /\ GateFailed(500)
    /\ pc = "done"

\* the proxied call of the request got an answer (or none) from upstream
ProxiedAnswered == MultiDone /\ answer.kind # "none"
\* what _request made of it
ProxiedResult == RequestResult(FamilyOfPath(req.path), pending, answer)

GoodPercent ==
    /\ req.parsed
    /\ StartsWith(req.ctype, JsonCType)
    /\ req.body.kind = "object"
    /\ IntCoerce(req.body.percent).ok

\* C13: POST /api/tessie/<vin>/command/set_charge_limit with an
\* integer-coercible percent p sends exactly one upstream call, POST
\* <vin>/command/set_charge_limit with the JSON body {"percent": int(p)},
\* <vin> being the first path segment
C13_SetChargeLimitForwarded ==
    \A v \in Vins :
        (variant = "multi" /\ req.method = "POST" /\ Truthy(env.tessie) /\ GoodPercent
           /\ req.path = PrefixOf("tessie") \o <<"/", v, "/", "command", "/", "set_charge_limit">>)
            => /\ pc \in {"m_call", "done"}
               /\ Len(calls) = 1
               /\ calls[1].api = "tessie"
               /\ calls[1].method = "POST"
               /\ calls[1].endpoint = <<v, "/", "command", "/", "set_charge_limit">>
               /\ calls[1].json = PercentJson(IntCoerce(req.body.percent).n)
               /\ calls[1].params = <<>>

C13_Witness ==
    /\ MultiDone
    /\ IsSetChargeLimit
    /\ GoodPercent
    /\ req.body.percent = JStr(<<"8", "0">>)
    /\ Len(calls) = 1
    /\ calls[1].json = PercentJson(80)
    /\ resp.status = 200

\* families the per-request client has a sub-client for
ConfiguredCount == Cardinality({f \in Families : client[f] # NONE})

\* C14 as stated: on every route of the multi-API router at most one upstream
\* call is issued for a request.  (Refuted: /health sends one call per
\* configured family, /status two.)
C14_AtMostOneUpstreamCall ==
    variant = "multi" => Len(calls) <= 1

\* C14 (amended): a request under a family prefix or to the static fallback
\* issues at most one upstream call, and when that call fails the request is
\* answered with the failure without a second call; GET /health issues at
\* most one call per configured family and GET /status at most two
C14_CallsBounded ==
    variant = "multi"
        => /\ ~IsCheckRoute(req) => Len(calls) <= 1
           /\ (IsCheckRoute(req) /\ req.path = HealthPath) => Len(calls) <= ConfiguredCount
           /\ (IsCheckRoute(req) /\ req.path = StatusPath)
                => Len(calls) <= 2 * ConfiguredCount
           /\ (answer.kind # "none" /\ ~ProxiedResult.ok)
                => (pc = "done" /\ Len(calls) = 1 /\ resp.kind = "error")

C14_Witness ==
    /\ ProxiedAnswered
    /\ UnderPrefix("tessie")
    /\ answer.kind = "http"
    /\ answer.status = 503
    /\ Len(calls) = 1
    /\ resp.status = 503

HealthStatuses == {"HEALTHY", "DEGRADED", "UNHEALTHY", "UNKNOWN"}
\* check_all is running or has returned
InCheckAll == pc = "m_check_all"
CheckAllReturned == overall # NONE

\* C15: check_all starts the three probes and joins all three.  Whatever the
\* other two probes came to (success, upstream error, transport failure, an
\* exception inside the probe, unconfigured), a waiting probe can still
\* complete and a completed one keeps its status; once the three are over
\* check_all can return; it raises nothing and its result has one of the
\* four statuses for each family, UNKNOWN exactly for the unconfigured ones
C15_ProbesIndependent ==
    /\ InCheckAll
         => /\ raised = NoExc
            /\ \A f \in Families :
                 /\ probe[f] \in HealthStatuses \cup {"pending"}
                 /\ probe[f] = "UNKNOWN" <=> client[f] = NONE
                 /\ probe[f] = "pending" => ENABLED ProbeReturn(f)
            /\ (\A f \in Families : probe[f] # "pending") => ENABLED CheckAllJoin
    /\ CheckAllReturned
         => /\ raised = NoExc
            /\ \A f \in Families :
                 /\ probe[f] \in HealthStatuses
                 /\ probe[f] = "UNKNOWN" <=> client[f] = NONE
            /\ overall \in HealthStatuses

C15_Witness ==
    /\ CheckAllReturned
    /\ pc = "done"
    /\ req.path = HealthPath
    /\ probe.tessie = "UNHEALTHY"
    /\ \E i \in 1..Len(logs) : logs[i].api = "tessie" /\ logs[i].status = 200
    /\ probe.telemetry = "HEALTHY"
    /\ probe.fleet = "DEGRADED"
    /\ resp = HealthResponse

\* the handler ran its body parser on a body-bearing request whose
\* Content-Type does not start with application/json
NonJsonBodyParsed ==
    /\ req.method \in BodyMethods
    /\ req.parsed
    /\ ~StartsWith(req.ctype, JsonCType)

\* C16: on both routers, a POST/PUT/PATCH request whose Content-Type is not
\* application/json is answered 400 and sends no upstream call.  (Refuted on
\* the multi-API router: _parse_json_body reads such a body as {} and the
\* request is routed and forwarded.)
C16_NonJsonContentTypeGets400 ==
    (pc = "done" /\ NonJsonBodyParsed) => (resp.status = 400 /\ calls = <<>>)

\* the gated router finished an authenticated POST /wake?vin=<v> with the
\* Tessie key configured
WakeByQuery(v) ==
    /\ SingleDone
    /\ req.authRead
    /\ raised = NoExc
    /\ env.tessie # UNREAD
    /\ Truthy(env.tessie)
    /\ req.method = "POST"
    /\ req.path = <<"/", "wake">>
    /\ req.query.vin = <<v>>

\* C17: an authenticated POST /wake?vin=<VIN> is dispatched to the wake
\* operation with the VIN of the query string, whether or not it has a JSON
\* body, and is not rejected.  (Refuted: for POST the query string is never
\* read; without a JSON body the request is answered 400.)
C17_WakeTakesVinFromQuery ==
    \A v \in Vins :
        WakeByQuery(v)
            => /\ resp.status # 400
               /\ env.fake = "no"
                    => (Len(calls) = 1 /\ calls[1].endpoint = <<v, "/", "wake">>)

\* a UnifiedTessieClient has been constructed from the tokens in env
ClientBuilt == variant \in {"multi", "ctx"}

\* C18: the client has a sub-client for a family exactly when the token
\* supplied for that family is non-empty (not None, not ""), for every
\* combination of the three tokens, and the sub-client holds that token; once
\* an async with block is left, normally or by exception, the shared pool is
\* closed (once)
C18_SubClientsAndContextExit ==
    /\ ClientBuilt
         => \A f \in Families :
              /\ client[f] # NONE <=> (env[f] # NONE /\ env[f] # "")
              /\ client[f] # NONE => client[f] = env[f]
    /\ (variant = "ctx" /\ pc = "c_block") => (client.pool = "open" /\ client.closes = 0)
    /\ (variant = "ctx" /\ pc = "c_exited") => (client.pool = "closed" /\ client.closes = 1)

C18_Witness ==
    /\ variant = "ctx"
    /\ pc = "c_exited"
    /\ raised = BlockError
    /\ env.tessie = "keyT"
    /\ env.telemetry = ""
    /\ env.fleet = NONE
    /\ client.tessie = "keyT"
    /\ client.telemetry = NONE
    /\ client.fleet = NONE
    /\ client.pool = "closed"

\* the predicates the request satisfies in the table that is consulted for it
MatchesOfRequest ==
    IF variant = "single" THEN Satisfied(SinglePredicates(req.method, req.path))
    ELSE IF variant = "multi" /\ FamilyOfPath(req.path) # NONE
    THEN Satisfied(PredicatesOf(FamilyOfPath(req.path), req.method,
                                EndpointOf(FamilyOfPath(req.path))))
    ELSE {}

\* a table was consulted for the request and nothing else decided the answer
TableDecided ==
    \/ variant = "single" /\ pc = "done" /\ raised = NoExc
    \/ /\ MultiDone
       /\ FamilyOfPath(req.path) # NONE
       /\ client[FamilyOfPath(req.path)] # NONE
       /\ ~BodyUnparseable

\* C19: for every (method, path / descriptor) at most one handler predicate
\* of the table consulted is satisfied, and when none is the answer is 404.
\* (Refuted: the substring predicates of the multi-API tables overlap.)
C19_PredicatesExclusive ==
    /\ Cardinality(MatchesOfRequest) <= 1
    /\ (TableDecided /\ MatchesOfRequest = {}) => resp.status = 404

\* client operations that take no VIN
NoVinOps == {"list_vehicles", "ping", "test", "metadata", "scopes"}

\* C20: every upstream operation that takes a VIN is invoked with a
\* non-empty VIN, on both routers; a request that yields an empty VIN sends
\* no call.  (Refuted: the telemetry table takes the second segment of the
\* descriptor, which is empty for vehicles//polling.)
C20_VinNonEmpty ==
    (pending.kind = "call" /\ pending.op \notin NoVinOps)
        => (pending.vin # <<>> /\ Len(calls) = 1)

\* the descriptor neither starts nor ends with a slash
NoOuterSlash(e) == e = <<>> \/ (Head(e) # "/" /\ e[Len(e)] # "/")

\* C21: the descriptor extracted from a path under a family prefix has no
\* leading and no trailing slash, so /api/tessie/vehicles/ is dispatched like
\* /api/tessie/vehicles.  (Refuted: only leading slashes are stripped.)
C21_DescriptorStripped ==
    /\ \A f \in Families :
         (variant = "multi" /\ UnderPrefix(f)) => NoOuterSlash(EndpointOf(f))
    /\ (variant = "multi" /\ pc \in {"m_call", "done"} /\ Truthy(env.tessie)
          /\ req.path = PrefixOf("tessie") \o <<"/", "vehicles", "/">>)
         => (Len(calls) = 1 /\ calls[1].endpoint = <<"vehicles">>)

\* the ranking UNKNOWN < HEALTHY < DEGRADED < UNHEALTHY and its reduction
StatusRanking == <<"UNKNOWN", "HEALTHY", "DEGRADED", "UNHEALTHY">>
RankOf(x) == CHOOSE i \in 1..Len(StatusRanking) : StatusRanking[i] = x
WorstOf(s) ==
    StatusRanking[CHOOSE r \in {RankOf(s[i]) : i \in 1..Len(s)} :
                     \A i \in 1..Len(s) : RankOf(s[i]) <= r]

\* C22: the aggregate check_all computes is the worst of the three
\* per-family statuses under UNKNOWN < HEALTHY < DEGRADED < UNHEALTHY, for
\* each of the 64 combinations.  (Refuted: three UNKNOWN give HEALTHY.)
C22_OverallIsWorst ==
    CheckAllReturned => overall = WorstOf(ProbeStatuses)

\* the token a request's own configuration holds for a family
OwnToken(r, f) == env[r][f]

\* C23 (under ConcSpec): with requests interleaved at their awaits, every
\* upstream call carries the bearer token that the sending request's own
\* configuration holds for the family and goes through that request's own
\* pool; the client of a multi-API request is the one built from the
\* configuration it read, stays open while the request waits and is closed
\* once, by that request
C23_NoCrossRequestBleed ==
    /\ \A i \in 1..Len(calls) :
         /\ Truthy(OwnToken(calls[i].rid, calls[i].call.api))
         /\ calls[i].call.auth = <<"Bearer", " ", OwnToken(calls[i].rid, calls[i].call.api)>>
         /\ calls[i].pool = calls[i].rid
    /\ \A r \in Rids :
         /\ variant[r] = "multi"
              => /\ \A f \in Families :
                      client[r][f] = IF Truthy(OwnToken(r, f)) THEN OwnToken(r, f) ELSE NONE
                 /\ pc[r] \in {"m_route", "m_call"}
                      => (client[r].pool = "open" /\ client[r].closes = 0)
                 /\ pc[r] = "done" => (client[r].pool = "closed" /\ client[r].closes = 1)
         /\ variant[r] = "single"
              => /\ client[r] = NoClient
                 /\ pc[r] = "s_call" => session[r] = "open"
                 /\ pc[r] = "done" => session[r] \in {"none", "closed"}
         /\ variant[r] = "none" => (client[r] = NoClient /\ session[r] = "none")

C23_Witness ==
    /\ pc[1] = "m_call"
    /\ pc[2] = "m_call"
    /\ FamilyOfPath(req[1].path) = "tessie"
    /\ FamilyOfPath(req[2].path) = "tessie"
    /\ env[1].tessie = "key1"
    /\ env[2].tessie = "key2"
    /\ Len(calls) = 2
    /\ calls[1].rid = 2
    /\ calls[1].call.auth = <<"Bearer", " ", "key2">>
    /\ calls[2].call.auth = <<"Bearer", " ", "key1">>

\* C24: the one call _request made for a proxied request emitted exactly one
\* log event, whose status is the upstream status code, or 0 for a transport
\* failure.  (Refuted: a non-2xx answer and an undecodable 2xx body are
\* logged twice.)
C24_OneLogEventPerCall ==
    ProxiedAnswered
        => /\ Len(logs) = 1
           /\ logs[1].status = IF answer.kind = "transport" THEN 0 ELSE answer.status

\* C25: when the multi-API fetch is over, close() of the per-request client
\* has been called exactly once.  (Refuted: it is called twice when the
\* static-asset binding raises after the client was closed.)
C25_ClosedExactlyOnce ==
    MultiDone => client.closes = 1

\* the request is for the telemetry polling branch of the multi-API router
OnPollingRoute ==
    /\ variant = "multi"
    /\ UnderPrefix("telemetry")
    /\ Truthy(env.telemetry)
    /\ EndpointOf("telemetry") \notin {<<"ping">>, <<"test">>, <<"metadata">>, <<"scopes">>}
    /\ Contains(EndpointOf("telemetry"), <<"/", "polling">>)

\* C26: in the multi-API router an inbound GET never results in an upstream
\* call whose method is not GET.  (Refuted: GET .../polling?enabled=true
\* posts upstream and ?enabled=false deletes.)
C26_GetNeverMutatesUpstream ==
    (variant = "multi" /\ req.method = "GET")
        => \A i \in 1..Len(calls) : calls[i].method = "GET"

\* the request's `enabled` query parameter as the branch compares it
EnabledIs(c) ==
    LET p == parse_query_params(req.query).enabled
    IN  p.t = "str" /\ p.s = <<c>>
EnabledOther ==
    LET p == parse_query_params(req.query).enabled
    IN  p.t # "absent" /\ ~EnabledIs("true") /\ ~EnabledIs("false")

\* C27: on the polling route, enabled=false never enables polling (upstream
\* POST), enabled=true never disables it (upstream DELETE), and a GET with
\* any other `enabled` value is answered 400 without an upstream call.
\* (Refuted: POST .../polling?enabled=false posts upstream.)
C27_PollingAgreesWithEnabled ==
    OnPollingRoute =>
        /\ EnabledIs("false") => \A i \in 1..Len(calls) : calls[i].method # "POST"
        /\ EnabledIs("true") => \A i \in 1..Len(calls) : calls[i].method # "DELETE"
        /\ (req.method = "GET" /\ EnabledOther /\ pc = "done")
              => (resp.status = 400 /\ calls = <<>>)

\* family f's probe is over (it ran in this request and is not waiting)
ProbeOver(f) == (InCheckAll \/ CheckAllReturned) /\ probe[f] \in HealthStatuses
\* a probe of a configured family that got an upstream answer
ProbeAnswered(f) == ProbeOver(f) /\ client[f] # NONE /\ probed[f] # NoOutcome
\* the probe's code after the call raises on the document: check_tessie and
\* check_fleet call result.get, which a JSON array does not have
ProbeCannotRead(f) ==
    ProbeReadsObject(f) /\ probed[f].kind = "ok" /\ probed[f].json = JsonArray
\* no probe raises, and an unconfigured family is UNKNOWN without a call
ProbeQuietWhenUnconfigured(f) ==
    /\ (InCheckAll \/ CheckAllReturned) => raised = NoExc
    /\ (ProbeOver(f) /\ client[f] = NONE)
          => /\ probe[f] = "UNKNOWN"
             /\ probed[f] = NoOutcome
             /\ \A i \in 1..Len(calls) : calls[i].api # f
    /\ (ProbeOver(f) /\ client[f] # NONE) => probed[f] # NoOutcome
\* the classification of errors: DEGRADED for a known status below 500,
\* UNHEALTHY for a status of 500 or more and for a failure with no status
ProbeErrorClass(o) ==
    IF o.kind = "http" /\ o.status < 500 THEN "DEGRADED" ELSE "UNHEALTHY"

=============================================================================
